---- MODULE Spec2Model ----
(***************************************************************************)
(* Model of DatabaseOperations (src/database_operations.py): the data      *)
(* access layer over the farmer_crm PostgreSQL store.                      *)
(*                                                                         *)
(* Text values are sequences of character codes.  PostgreSQL text cannot   *)
(* hold the NUL character, so the one-element sequence <<0>> stands for    *)
(* SQL NULL / Python None wherever a text value may be absent.             *)
(* Optional results (Optional[...]) are sequences of length 0 (None) or 1. *)
(***************************************************************************)
EXTENDS Integers, Sequences, FiniteSets, TLC

----------------------------------------------------------------------------
(* Bounds of the model *)

\* number of transactions (save_conversation calls reaching the store) in Spec
MaxTxn == 2
\* number of transactions in SpecOps
MaxTxnOps == 1
\* number of transactions in SpecQueue
MaxTxnQueue == 3
\* number of transactions in SpecRecent
MaxTxnRecent == 6
\* sessions that may be outside the pool before a caller is refused one
PoolCap == 3
MaxHanded == 1
\* largest limit handed to get_all_farmers
MaxLimit == 3

(* Program constants *)

\* get_recent_conversations(..., limit: int = 10)
DefaultLimit == 10
\* row[2][:100], len(row[2]) > 100
MsgCut == 100
\* LIMIT 100 of the approval query
ApprovalCap == 100

----------------------------------------------------------------------------
(* Text *)

NULL == <<0>>
Empty == <<>>

\* Python truthiness of an Optional[str]: None and "" are falsy
Truthy(t) == t # NULL /\ t # Empty

\* x or y
Or(x, y) == IF Truthy(x) THEN x ELSE y

Space == 32
StrUnknown == <<85, 110, 107, 110, 111, 119, 110>>                      \* "Unknown"
StrUnknownFarm == StrUnknown \o <<Space, 70, 97, 114, 109>>             \* "Unknown Farm"
StrUnknownLower == <<117, 110, 107, 110, 111, 119, 110>>                \* "unknown"
StrFarm == <<70, 97, 114, 109>>                                         \* "Farm"
StrChat == <<99, 104, 97, 116>>                                         \* "chat"
StrCrop == <<67, 114, 111, 112>>                                        \* "Crop"
StrSpring == <<83, 112, 114, 105, 110, 103>>                            \* "Spring"
StrFall == <<70, 97, 108, 108>>                                         \* "Fall"
StrInfoAbout == <<73, 110, 102, 111, 114, 109, 97, 116, 105, 111, 110,
                  Space, 97, 98, 111, 117, 116, Space>>                 \* "Information about "
StrEllipsis == <<46, 46, 46>>                                           \* "..."
StrNone == <<78, 111, 110, 101>>                                        \* "None"

\* f"{x}": None formats as the text "None"
Format(t) == IF t = NULL THEN StrNone ELSE t

\* the characters str.strip() removes, those of str.isspace(): tab to carriage
\* return, the four separators, space, next line, no-break space and the
\* Unicode spaces and line separators
Whitespace ==
  (9..13) \cup (28..32) \cup {133, 160, 5760} \cup (8192..8202)
    \cup {8232, 8233, 8239, 8287, 12288}

RECURSIVE LStrip(_)
LStrip(t) == IF t # <<>> /\ Head(t) \in Whitespace THEN LStrip(Tail(t)) ELSE t

RECURSIVE RStrip(_)
RStrip(t) ==
  IF t # <<>> /\ t[Len(t)] \in Whitespace THEN RStrip(SubSeq(t, 1, Len(t) - 1)) ELSE t

\* str.strip()
Strip(t) == LStrip(RStrip(t))

\* f"{a} {b}".strip() if a and b else "Unknown"
DisplayName(a, b) ==
  IF Truthy(a) /\ Truthy(b) THEN Strip(Format(a) \o <<Space>> \o Format(b))
  ELSE StrUnknown

\* LOWER(x) on the ASCII letters
Lower(t) == [i \in 1..Len(t) |-> IF t[i] >= 65 /\ t[i] <= 90 THEN t[i] + 32 ELSE t[i]]

\* s[:n]
Prefix(t, n) == SubSeq(t, 1, IF Len(t) < n THEN Len(t) ELSE n)

\* strict lexicographic order of two texts (neither NULL)
RECURSIVE LexLess(_, _)
LexLess(a, b) ==
  IF b = <<>> THEN FALSE
  ELSE IF a = <<>> THEN TRUE
  ELSE IF Head(a) # Head(b) THEN Head(a) < Head(b)
  ELSE LexLess(Tail(a), Tail(b))

LexLeq(a, b) == a = b \/ LexLess(a, b)

\* ORDER BY col ASC: NULLs sort last
AscLess(a, b) ==
  IF a = NULL THEN FALSE
  ELSE IF b = NULL THEN TRUE
  ELSE LexLess(a, b)

\* a text of n characters whose characters vary with the position
TextOfLen(n) == [i \in 1..n |-> 97 + (i % 5)]

----------------------------------------------------------------------------
(* Ordered fetches *)

MinOf(S) == CHOOSE x \in S : \A y \in S : x <= y

\* the row sequences a store may return for ORDER BY key ASC LIMIT n over
\* the row set S: rows of equal key come in any order
RECURSIVE OrderBy(_, _, _)
OrderBy(S, key, n) ==
  IF S = {} \/ n = 0 THEN {<<>>}
  ELSE LET m == MinOf({key[r] : r \in S})
           firsts == {r \in S : key[r] = m}
       IN UNION {{<<r>> \o t : t \in OrderBy(S \ {r}, key, n - 1)} : r \in firsts}

----------------------------------------------------------------------------
(* Result mapping: the dictionaries the operations build from the rows *)

\* Optional[...]: None and a value
None == <<>>
Some(x) == <<x>>

\* cursor.fetchone() over the rows a statement selected
FetchOne(rows) == IF rows = {} THEN {None} ELSE {Some(r) : r \in rows}

\* get_farmer_info: the dictionary built from the selected row
FarmerInfo(r) ==
  [id |-> r.id, farm_name |-> r.farm_name, manager_name |-> r.manager_name,
   manager_last_name |-> r.manager_last_name, total_hectares |-> 0,
   farmer_type |-> StrFarm, city |-> r.city, wa_phone_number |-> r.wa_phone_number]

\* the farm_name of a farmer summary: row[1] or "Unknown Farm"
SummaryFarmName(name) == Or(name, StrUnknownFarm)

\* get_all_farmers: one entry of the returned list
FarmerSummary(r) ==
  [id |-> r.id,
   name |-> DisplayName(r.manager_name, r.manager_last_name),
   farm_name |-> SummaryFarmName(r.farm_name),
   phone |-> Or(r.phone, Or(r.wa_phone_number, Empty)),
   location |-> Or(r.city, Empty),
   farm_type |-> StrFarm,
   total_size_ha |-> 0]

\* zero-padded decimal digits of n, w characters wide
RECURSIVE Digits(_, _)
Digits(n, w) == IF w = 0 THEN <<>> ELSE Digits(n \div 10, w - 1) \o <<48 + (n % 10)>>

\* date.isoformat(): YYYY-MM-DD of a date <<year, month, day>>
Isoformat(d) == Digits(d[1], 4) \o <<45>> \o Digits(d[2], 2) \o <<45>> \o Digits(d[3], 2)

\* get_farmer_fields: one entry of the returned list.  A size is <<>> (NULL)
\* or <<n>>, n in hundredths of a hectare
FieldView(r) ==
  [field_id |-> r.field_id, field_name |-> r.field_name,
   field_size |-> IF r.field_size # <<>> /\ r.field_size[1] # 0 THEN r.field_size[1] ELSE 0,
   field_location |-> r.field_location, soil_type |-> r.soil_type,
   current_crop |-> r.crop_name, variety |-> r.variety,
   planting_date |-> IF r.planting_date # NULL THEN Isoformat(r.planting_date) ELSE NULL,
   crop_status |-> r.status]

\* variant: "user_input": row[1]
UserInputAnyRole(text, role) == text

\* the user_input / ava_response slots of a message
UserInput(text, role) == IF role = "user" THEN text ELSE Empty
AvaResponse(text, role) == IF role = "assistant" THEN text ELSE Empty

\* get_recent_conversations: one entry of the returned list
Turn(r) ==
  [id |-> r.id,
   user_input |-> UserInput(r.message_text, r.role),
   ava_response |-> AvaResponse(r.message_text, r.role),
   timestamp |-> r.timestamp, message_type |-> StrChat,
   confidence_score |-> 8, approved_status |-> FALSE]

\* variant: len(row[2]) >= 100
LastMessageFrom100(text) ==
  IF Truthy(text) /\ Len(text) >= MsgCut THEN Prefix(text, MsgCut) \o StrEllipsis
  ELSE Or(text, Empty)

\* row[2][:100] + "..." if row[2] and len(row[2]) > 100 else row[2] or ""
LastMessage(text) ==
  IF Truthy(text) /\ Len(text) > MsgCut THEN Prefix(text, MsgCut) \o StrEllipsis
  ELSE Or(text, Empty)

\* get_conversations_for_approval: one entry of the unapproved list
ApprovalEntry(r) ==
  [id |-> r.id, farmer_id |-> r.farmer_id,
   farmer_name |-> DisplayName(r.manager_name, r.manager_last_name),
   farmer_phone |-> Or(r.phone, Empty),
   farmer_location |-> Or(r.city, Empty),
   farmer_type |-> StrFarm, farmer_size |-> <<48, 46, 48>>,
   last_message |-> LastMessage(r.message_text),
   timestamp |-> r.timestamp]

\* get_conversation_details: the dictionary built from the selected row
DetailView(r) ==
  [id |-> r.id, farmer_id |-> r.farmer_id,
   farmer_name |-> DisplayName(r.manager_name, r.manager_last_name),
   user_input |-> UserInput(r.message_text, r.role),
   ava_response |-> AvaResponse(r.message_text, r.role),
   timestamp |-> r.timestamp, approved_status |-> FALSE]

\* get_crop_info: the dictionary built from the selected crop type
CropInfo(name) ==
  [id |-> 1, crop_name |-> name, croatian_name |-> name, category |-> StrCrop,
   planting_season |-> StrSpring, harvest_season |-> StrFall,
   description |-> StrInfoAbout \o Format(name)]

\* [f(r) for r in rows]
MapSeq(F(_), rows) == [i \in 1..Len(rows) |-> F(rows[i])]

----------------------------------------------------------------------------
(* The statements, over the committed tables.  Each operator is the set of *)
(* values the operation may return when no step of it fails.               *)

\* SELECT ... FROM farmers WHERE id = :farmer_id
get_farmer_info(farmers_t, farmer_id) ==
  {IF x = None THEN None ELSE Some(FarmerInfo(x[1])) :
     x \in FetchOne({r \in farmers_t : r.id = farmer_id})}

\* position of a farm name under ORDER BY farm_name (ascending, NULLs last)
FarmNameRank(farmers_t) ==
  [r \in farmers_t |->
     Cardinality({x \in farmers_t : AscLess(x.farm_name, r.farm_name)})]

\* SELECT ... FROM farmers ORDER BY farm_name LIMIT :limit
get_all_farmers(farmers_t, limit) ==
  {MapSeq(FarmerSummary, rows) :
     rows \in OrderBy(farmers_t, FarmNameRank(farmers_t), limit)}

\* fields f LEFT JOIN field_crops fc ON f.field_id = fc.field_id AND fc.status = 'active'
\* WHERE f.farmer_id = :farmer_id
StrActive == <<97, 99, 116, 105, 118, 101>>                             \* "active"

FieldsJoin(fields_t, crops_t, farmer_id) ==
  LET mine == {f \in fields_t : f.farmer_id = farmer_id}
      act(f) == {fc \in crops_t : fc.field_id = f.field_id /\ fc.status = StrActive}
      base(f) == [field_id |-> f.field_id, field_name |-> f.field_name,
                  field_size |-> f.field_size, field_location |-> f.field_location,
                  soil_type |-> f.soil_type]
      nulls == [crop_name |-> NULL, variety |-> NULL, planting_date |-> NULL, status |-> NULL]
      crop(fc) == [crop_name |-> fc.crop_name, variety |-> fc.variety,
                   planting_date |-> fc.planting_date, status |-> fc.status]
  IN UNION {IF act(f) = {} THEN {base(f) @@ nulls}
            ELSE {base(f) @@ crop(fc) : fc \in act(f)} : f \in mine}

\* ... ORDER BY f.field_name
get_farmer_fields(fields_t, crops_t, farmer_id) ==
  LET rows == FieldsJoin(fields_t, crops_t, farmer_id)
      rank == [r \in rows |-> Cardinality({x \in rows : AscLess(x.field_name, r.field_name)})]
  IN {MapSeq(FieldView, q) : q \in OrderBy(rows, rank, Cardinality(rows))}

\* variant: ORDER BY timestamp (ascending)
RecentRowsOldestFirst(messages, farmer_id, limit) ==
  LET mine == {m \in messages : m.farmer_id = farmer_id}
  IN OrderBy(mine, [m \in mine |-> m.timestamp], limit)

\* SELECT ... FROM incoming_messages WHERE farmer_id = :farmer_id
\* ORDER BY timestamp DESC LIMIT :limit
RecentRows(messages, farmer_id, limit) ==
  LET mine == {m \in messages : m.farmer_id = farmer_id}
  IN OrderBy(mine, [m \in mine |-> 0 - m.timestamp], limit)

get_recent_conversations(messages, farmer_id, limit) ==
  {MapSeq(Turn, q) : q \in RecentRows(messages, farmer_id, limit)}

\* SELECT DISTINCT crop_type FROM crop_technology
\* WHERE LOWER(crop_type) = LOWER(:crop_name) LIMIT 1
get_crop_info(crop_t, crop_name) ==
  {IF x = None THEN None ELSE Some(CropInfo(x[1])) :
     x \in FetchOne({c \in crop_t : Lower(c) = Lower(crop_name)})}

\* incoming_messages m JOIN farmers f ON m.farmer_id = f.id
JoinFarmer(messages, farmers_t) ==
  {[id |-> m.id, farmer_id |-> m.farmer_id, message_text |-> m.message_text,
    timestamp |-> m.timestamp, role |-> m.role,
    manager_name |-> f.manager_name, manager_last_name |-> f.manager_last_name,
    phone |-> f.phone, city |-> f.city, farm_name |-> f.farm_name] :
     <<m, f>> \in {p \in messages \X farmers_t : p[1].farmer_id = p[2].id}}

\* variant: ORDER BY farmer_id, m.timestamp (ascending)
EarliestOf(rows, fid) ==
  {r \in rows : r.farmer_id = fid /\
     \A x \in rows : x.farmer_id = fid => x.timestamp >= r.timestamp}

\* the rows DISTINCT ON (farmer_id) ... ORDER BY farmer_id, m.timestamp DESC may
\* keep for one farmer: a row of the latest timestamp
LatestOf(rows, fid) ==
  {r \in rows : r.farmer_id = fid /\
     \A x \in rows : x.farmer_id = fid => x.timestamp <= r.timestamp}

\* WITH latest_messages AS (SELECT DISTINCT ON (farmer_id) ... WHERE m.role = 'user' ...)
LatestMessages(messages, farmers_t) ==
  LET rows == {r \in JoinFarmer(messages, farmers_t) : r.role = "user"}
      fids == {r.farmer_id : r \in rows}
  IN {{pick[fid] : fid \in fids} : pick \in [fids -> rows] \cap
         {p \in [fids -> rows] : \A fid \in fids : p[fid] \in LatestOf(rows, fid)}}

\* SELECT * FROM latest_messages ORDER BY timestamp DESC LIMIT 100
get_conversations_for_approval(messages, farmers_t) ==
  UNION {{[unapproved |-> MapSeq(ApprovalEntry, q), approved |-> <<>>] :
            q \in OrderBy(latest, [r \in latest |-> 0 - r.timestamp], ApprovalCap)} :
         latest \in LatestMessages(messages, farmers_t)}

\* ... FROM incoming_messages m JOIN farmers f ON m.farmer_id = f.id
\* WHERE m.id = :conversation_id
get_conversation_details(messages, farmers_t, conversation_id) ==
  {IF x = None THEN None ELSE Some(DetailView(x[1])) :
     x \in FetchOne({r \in JoinFarmer(messages, farmers_t) : r.id = conversation_id})}

\* SELECT COUNT(*) FROM farmers succeeded
health_check(farmers_t) == {TRUE}

----------------------------------------------------------------------------
(* The store and the callers *)

VARIABLES
  farmers,            \* table farmers
  fields,             \* table fields
  field_crops,        \* table field_crops
  crop_technology,    \* the crop_type column of table crop_technology
  incoming_messages,  \* committed rows of table incoming_messages
  next_id,            \* the id sequence of incoming_messages
  clock,              \* the store clock, read when a transaction begins
  checked_out,        \* sessions outside the pool
  handed_out,         \* sessions of these a caller took with get_session() itself
  pc,                 \* position of each caller inside save_conversation
  tx,                 \* the open transaction of each caller: <<>> or <<record>>
  ret                 \* what the last completed call returned

vars == <<farmers, fields, field_crops, crop_technology, incoming_messages,
          next_id, clock, checked_out, handed_out, pc, tx, ret>>

tables == <<farmers, fields, field_crops, crop_technology>>

Callers == {"a", "b"}

StrJane == <<74, 97, 110, 101>>        \* "Jane"
StrDoe == <<68, 111, 101>>             \* "Doe"
StrZeta == <<90, 101, 116, 97>>        \* "Zeta"
StrAcres == <<65, 99, 114, 101, 115>>  \* "Acres"
StrCity == <<83, 112>>                 \* "Sp"
StrPhone == <<53, 53, 53>>             \* "555"
StrWa == <<51, 56, 53>>                \* "385"
StrCorn == <<67, 111, 114, 110>>       \* "Corn"
StrCornLower == Lower(StrCorn)         \* "corn"
StrRye == <<82, 121, 101>>             \* "Rye"
StrNorth == <<78>>                     \* "N"
StrSouth == <<83>>                     \* "S"

Farmer(id, farm, first, last, phone, wa, city) ==
  [id |-> id, farm_name |-> farm, manager_name |-> first, manager_last_name |-> last,
   email |-> NULL, phone |-> phone, city |-> city, wa_phone_number |-> wa]

InitFarmers ==
  {Farmer(1, StrZeta, StrJane, StrDoe, StrPhone, NULL, StrCity),
   Farmer(2, NULL, StrJane, NULL, NULL, StrWa, NULL),
   Farmer(4, StrAcres, <<9>> \o StrDoe, StrJane \o <<160, 10>>, Empty, StrWa, StrCity)}

InitFields ==
  {[field_id |-> 1, farmer_id |-> 1, field_name |-> StrSouth, field_size |-> <<250>>,
    field_location |-> StrCity, soil_type |-> NULL],
   [field_id |-> 2, farmer_id |-> 1, field_name |-> StrNorth, field_size |-> <<>>,
    field_location |-> NULL, soil_type |-> NULL]}

InitFieldCrops ==
  {[field_id |-> 1, crop_name |-> StrCorn, variety |-> NULL,
    planting_date |-> <<2024, 4, 9>>, status |-> StrActive],
   [field_id |-> 2, crop_name |-> StrRye, variety |-> NULL,
    planting_date |-> NULL, status |-> StrFall]}

InitCropTechnology == {StrCorn, StrCornLower, StrRye}

\* the ids callers ask about: 3 names no farmer
FarmerIds == {1, 3}

StrQ == <<113, 63>>                    \* "q?"
StrA == <<97, 33>>                     \* "a!"

\* (farmer_id, conversation_data) arguments of save_conversation
SaveInputs ==
  {<<1, [question |-> StrQ, answer |-> StrA, wa_phone_number |-> StrWa]>>,
   <<2, [question |-> StrA, answer |-> StrQ]>>}

QueueInputs ==
  {<<1, [question |-> TextOfLen(MsgCut + 1), answer |-> StrA]>>,
   <<1, [question |-> TextOfLen(MsgCut), answer |-> Empty]>>,
   <<2, [answer |-> StrA]>>,
   <<2, [question |-> Empty, answer |-> TextOfLen(MsgCut + 2)]>>,
   <<3, [question |-> StrQ, answer |-> StrA]>>}

RecentInputs == {<<1, [question |-> StrQ, answer |-> StrA]>>}

CropNames == {StrCornLower, StrFall}

\* the steps at which a call may fail
AllFaults == {"session", "execute", "commit", "result", "mapping"}
NoFaults == {}

NoRet == [op |-> "none", args |-> <<>>, failure |-> "ok", status |-> "returned",
          value |-> <<>>, ghost |-> <<>>]

Init ==
  /\ farmers = InitFarmers
  /\ fields = InitFields
  /\ field_crops = InitFieldCrops
  /\ crop_technology = InitCropTechnology
  /\ incoming_messages = {}
  /\ next_id = 1
  /\ clock = 0
  /\ checked_out = 0
  /\ handed_out = 0
  /\ pc = [c \in Callers |-> "idle"]
  /\ tx = [c \in Callers |-> <<>>]
  /\ ret = NoRet

----------------------------------------------------------------------------
(* try / except / with: what a call does with a failure and its session *)

\* the value each operation returns from its except branch
Sentinel(op) ==
  CASE op \in {"get_farmer_info", "save_conversation", "get_crop_info",
               "get_conversation_details"} -> None
    [] op \in {"get_all_farmers", "get_farmer_fields", "get_recent_conversations"} -> <<>>
    [] op = "get_conversations_for_approval" -> [unapproved |-> <<>>, approved |-> <<>>]
    [] op = "health_check" -> FALSE

\* variant: except SQLAlchemyError, which lets a failure of building the result
\* (TypeError, ValueError) leave the call
HandleSQLAlchemyError(op, failure) ==
  IF failure = "mapping" THEN [status |-> "raised", value |-> <<>>]
  ELSE [status |-> "returned", value |-> Sentinel(op)]

\* except Exception as e: log and return the sentinel
Handle(op, failure) == [status |-> "returned", value |-> Sentinel(op)]

\* what a call returns: its value, or what its except branch makes of a failure
Return(op, args, failure, value, ghost) ==
  [op |-> op, args |-> args, failure |-> failure, ghost |-> ghost] @@
  (IF failure = "ok" THEN [status |-> "returned", value |-> value]
   ELSE Handle(op, failure))

\* self.get_session(): one more session outside the pool
Acquire(n) == n + 1

\* variant: session.close() called at the end of the try body only
ReleaseOnSuccess(n, failure) == IF failure = "ok" THEN n - 1 ELSE n

\* leaving the with block, on the path `failure` ("ok": no failure)
Release(n, failure) == n - 1

\* sessions outside the pool after a call of one statement: a failure of
\* get_session itself leaves none acquired
AfterCall(n, failure) == IF failure = "session" THEN n ELSE Release(Acquire(n), failure)

\* the paths of a call of one statement: no failure, or a failure of
\* get_session, of execute, or of building the result from the rows
ReadPaths(faults) == {"ok"} \cup (faults \cap {"session", "execute", "mapping"})

CanCall == (\E c \in Callers : pc[c] = "idle") /\ checked_out < PoolCap

Read(op, args, failure, value, ghost) ==
  /\ CanCall
  /\ ret' = Return(op, args, failure, value, ghost)
  /\ checked_out' = AfterCall(checked_out, failure)
  /\ UNCHANGED <<tables, incoming_messages, next_id, clock, handed_out, pc, tx>>

\* get_session() called by a caller itself: the session is handed to the caller
\* and nothing of the layer closes it
get_session_call(max) ==
  /\ handed_out < max
  /\ checked_out < PoolCap
  /\ checked_out' = Acquire(checked_out)
  /\ handed_out' = handed_out + 1
  /\ UNCHANGED <<tables, incoming_messages, next_id, clock, pc, tx, ret>>

----------------------------------------------------------------------------
(* The reading operations: one statement each, so one step each *)

\* the values a reading call may return on the path `failure`
Values(failure, results) == IF failure = "ok" THEN results ELSE {<<>>}

get_farmer_info_call(farmer_ids, faults) ==
  \E farmer_id \in farmer_ids, failure \in ReadPaths(faults) :
    \E v \in Values(failure, get_farmer_info(farmers, farmer_id)) :
      Read("get_farmer_info", [farmer_id |-> farmer_id], failure, v, <<>>)

get_all_farmers_call(limits, faults) ==
  \E limit \in limits, failure \in ReadPaths(faults) :
    \E v \in Values(failure, get_all_farmers(farmers, limit)) :
      Read("get_all_farmers", [limit |-> limit], failure, v, <<>>)

get_farmer_fields_call(farmer_ids, faults) ==
  \E farmer_id \in farmer_ids, failure \in ReadPaths(faults) :
    \E v \in Values(failure, get_farmer_fields(fields, field_crops, farmer_id)) :
      Read("get_farmer_fields", [farmer_id |-> farmer_id], failure, v, <<>>)

\* The ghost of a call that reads messages records `seen`, the committed rows its
\* statement saw.  The ghost of a listing also records `follows`: when the call
\* completed just before it was a save_conversation of the same caller for the
\* same farmer that returned an id, the two rows that save wrote, the number
\* of other committed rows of the farmer stamped no earlier than they, and
\* whether nothing was committed between the return and the listing
Follows(c, farmer_id) ==
  IF /\ ret.op = "save_conversation"
     /\ ret.status = "returned"
     /\ ret.value # None
     /\ ret.ghost.caller = c
     /\ ret.args.farmer_id = farmer_id
  THEN Some([user_id |-> ret.ghost.written[1], assistant_id |-> ret.ghost.written[2],
             question |-> ret.ghost.question, answer |-> ret.ghost.answer,
             quiet |-> Cardinality(incoming_messages) = ret.ghost.committed,
             others |-> Cardinality({m \in incoming_messages :
                           /\ m.farmer_id = farmer_id
                           /\ m.id \notin {ret.ghost.written[1], ret.ghost.written[2]}
                           /\ m.timestamp >= ret.ghost.timestamp})])
  ELSE None

\* with `after_save` a caller only lists right after its save_conversation for
\* the farmer has returned its id
get_recent_conversations_call(farmer_ids, limits, faults, after_save) ==
  \E c \in Callers, farmer_id \in farmer_ids, limit \in limits,
     failure \in ReadPaths(faults) :
    /\ pc[c] = "idle"
    /\ after_save => Follows(c, farmer_id) # None
    /\ \E v \in Values(failure,
                       get_recent_conversations(incoming_messages, farmer_id, limit)) :
         Read("get_recent_conversations", [farmer_id |-> farmer_id, limit |-> limit],
              failure, v, [seen |-> incoming_messages, follows |-> Follows(c, farmer_id)])

get_crop_info_call(crop_names, faults) ==
  \E crop_name \in crop_names, failure \in ReadPaths(faults) :
    \E v \in Values(failure, get_crop_info(crop_technology, crop_name)) :
      Read("get_crop_info", [crop_name |-> crop_name], failure, v, <<>>)

get_conversations_for_approval_call(faults) ==
  \E failure \in ReadPaths(faults) :
    \E v \in Values(failure, get_conversations_for_approval(incoming_messages, farmers)) :
      Read("get_conversations_for_approval", <<>>, failure, v,
           [seen |-> incoming_messages])

get_conversation_details_call(conversation_ids, faults) ==
  \E conversation_id \in conversation_ids, failure \in ReadPaths(faults) :
    \E v \in Values(failure,
                    get_conversation_details(incoming_messages, farmers, conversation_id)) :
      Read("get_conversation_details", [conversation_id |-> conversation_id],
           failure, v, [seen |-> incoming_messages])

health_check_call(faults) ==
  \E failure \in ReadPaths(faults) :
    \E v \in Values(failure, health_check(farmers)) :
      Read("health_check", <<>>, failure, v, <<>>)

----------------------------------------------------------------------------
(* save_conversation: two INSERT statements, the commit, the returned id *)

\* dict.get(key, default)
Get(data, key, default) == IF key \in DOMAIN data THEN data[key] ELSE default

\* INSERT INTO incoming_messages (farmer_id, phone_number, message_text, role, timestamp)
\* VALUES (:farmer_id, :phone_number, :message_text, <role>, CURRENT_TIMESTAMP)
InsertedRow(id, farmer_id, data, role, now) ==
  [id |-> id, farmer_id |-> farmer_id,
   phone_number |-> Get(data, "wa_phone_number", StrUnknownLower),
   message_text |-> Get(data, IF role = "user" THEN "question" ELSE "answer", NULL),
   role |-> role, timestamp |-> now]

\* variant: a session made with autocommit=True, every statement committed at once
ExecuteInsertAutocommit(messages, row) == messages \cup {row}

\* the committed rows after session.execute(INSERT ...): the session was made
\* with autocommit=False, so the row stays inside the caller's transaction
ExecuteInsert(messages, row) == messages

\* the committed rows after session.commit() of a transaction that wrote `rows`
Commit(messages, rows) == messages \cup rows

\* variant: conv_id = result1.scalar()
ReturnedFirstId(id1, id2) == id1

\* conv_id = result2.scalar(): the id the second INSERT returned
ReturnedId(id1, id2) == id2

\* what the ghost of a save_conversation call records: its caller, the ids of
\* the rows it inserted, the timestamp of its transaction, the texts it was
\* given, the number of committed rows when it returned
SaveGhost(c, rows, now, data) ==
  [caller |-> c, written |-> [i \in 1..Len(rows) |-> rows[i].id], timestamp |-> now,
   committed |-> Cardinality(incoming_messages),
   question |-> Get(data, "question", NULL), answer |-> Get(data, "answer", NULL)]

\* the call of caller c ends on the path `failure`: the with block closes the
\* session, which rolls back what was not committed
Exit(c, failure, value) ==
  LET t == tx[c][1]
  IN /\ ret' = Return("save_conversation", [farmer_id |-> t.farmer_id, data |-> t.data],
                      failure, value, SaveGhost(c, t.rows, t.timestamp, t.data))
     /\ checked_out' = Release(checked_out, failure)
     /\ pc' = [pc EXCEPT ![c] = "idle"]
     /\ tx' = [tx EXCEPT ![c] = <<>>]

\* the paths of one step of save_conversation: no failure, or one of `kinds`
StepPaths(faults, kinds) == {"ok"} \cup (faults \cap kinds)

\* entry, and the first INSERT (role 'user'); the transaction begins here and
\* CURRENT_TIMESTAMP is its start time for both rows.  The store clock has
\* advanced since the transaction before began, so the rows of two transactions
\* differ in timestamp
SaveUser(c, inputs, max, faults) ==
  /\ pc[c] = "idle"
  /\ checked_out < PoolCap
  /\ UNCHANGED handed_out
  /\ \E in \in inputs, failure \in StepPaths(faults, {"session", "execute"}) :
       LET farmer_id == in[1]
           data == in[2]
       IN IF failure = "ok"
          THEN /\ clock < max
               /\ LET now == clock + 1
                      row == InsertedRow(next_id, farmer_id, data, "user", now)
                  IN /\ clock' = now
                     /\ next_id' = next_id + 1
                     /\ incoming_messages' = ExecuteInsert(incoming_messages, row)
                     /\ tx' = [tx EXCEPT ![c] = <<[farmer_id |-> farmer_id, data |-> data,
                                                   timestamp |-> now, rows |-> <<row>>]>>]
               /\ pc' = [pc EXCEPT ![c] = "user_inserted"]
               /\ checked_out' = Acquire(checked_out)
               /\ UNCHANGED <<tables, ret>>
          ELSE /\ ret' = Return("save_conversation",
                                [farmer_id |-> farmer_id, data |-> data],
                                failure, None, SaveGhost(c, <<>>, clock, data))
               /\ checked_out' = AfterCall(checked_out, failure)
               /\ UNCHANGED <<tables, incoming_messages, next_id, clock, pc, tx>>

\* the second INSERT (role 'assistant')
SaveAssistant(c, faults) ==
  /\ pc[c] = "user_inserted"
  /\ UNCHANGED handed_out
  /\ \E failure \in StepPaths(faults, {"execute"}) :
       IF failure = "ok"
       THEN LET t == tx[c][1]
                row == InsertedRow(next_id, t.farmer_id, t.data, "assistant", t.timestamp)
            IN /\ next_id' = next_id + 1
               /\ incoming_messages' = ExecuteInsert(incoming_messages, row)
               /\ tx' = [tx EXCEPT ![c] = <<[t EXCEPT !.rows = Append(t.rows, row)]>>]
               /\ pc' = [pc EXCEPT ![c] = "assistant_inserted"]
               /\ UNCHANGED <<tables, clock, checked_out, ret>>
       ELSE /\ Exit(c, failure, None)
            /\ UNCHANGED <<tables, incoming_messages, next_id, clock>>

\* session.commit()
SaveCommit(c, faults) ==
  /\ pc[c] = "assistant_inserted"
  /\ UNCHANGED handed_out
  /\ \E failure \in StepPaths(faults, {"commit"}) :
       IF failure = "ok"
       THEN /\ incoming_messages' =
                 Commit(incoming_messages, {tx[c][1].rows[i] : i \in 1..Len(tx[c][1].rows)})
            /\ pc' = [pc EXCEPT ![c] = "committed"]
            /\ UNCHANGED <<tables, next_id, clock, checked_out, tx, ret>>
       ELSE /\ Exit(c, failure, None)
            /\ UNCHANGED <<tables, incoming_messages, next_id, clock>>

\* conv_id = result2.scalar(); return conv_id
SaveReturn(c, faults) ==
  /\ pc[c] = "committed"
  /\ UNCHANGED handed_out
  /\ \E failure \in StepPaths(faults, {"result"}) :
       /\ Exit(c, failure, Some(ReturnedId(tx[c][1].rows[1].id, tx[c][1].rows[2].id)))
       /\ UNCHANGED <<tables, incoming_messages, next_id, clock>>

save_conversation(callers, inputs, max, faults) ==
  \E c \in callers :
    \/ SaveUser(c, inputs, max, faults)
    \/ SaveAssistant(c, faults)
    \/ SaveCommit(c, faults)
    \/ SaveReturn(c, faults)

----------------------------------------------------------------------------
(* Spec: two callers saving conversations for two farmers while the three  *)
(* operations that read messages run, every step of every call able to fail *)

Call_save_conversation == save_conversation(Callers, SaveInputs, MaxTxn, AllFaults)
Call_get_recent_conversations ==
  get_recent_conversations_call({1}, {DefaultLimit}, AllFaults, FALSE)
Call_get_conversations_for_approval == get_conversations_for_approval_call(AllFaults)
Call_get_conversation_details == get_conversation_details_call({2}, AllFaults)

Next ==
  \/ Call_save_conversation
  \/ Call_get_recent_conversations
  \/ Call_get_conversations_for_approval
  \/ Call_get_conversation_details

Spec == Init /\ [][Next]_vars

----------------------------------------------------------------------------
(* SpecOps: every operation of the layer, every step of every call able to *)
(* fail                                                                     *)

Ops_get_farmer_info == get_farmer_info_call(FarmerIds, AllFaults)
Ops_get_all_farmers == get_all_farmers_call(0..MaxLimit, AllFaults)
Ops_get_farmer_fields == get_farmer_fields_call({1}, AllFaults)
Ops_get_recent_conversations ==
  get_recent_conversations_call({1}, {DefaultLimit}, AllFaults, FALSE)
Ops_save_conversation == save_conversation(Callers, SaveInputs, MaxTxnOps, AllFaults)
Ops_get_crop_info == get_crop_info_call(CropNames, AllFaults)
Ops_get_conversations_for_approval == get_conversations_for_approval_call(AllFaults)
Ops_get_conversation_details == get_conversation_details_call({2}, AllFaults)
Ops_health_check == health_check_call(AllFaults)
Ops_get_session == get_session_call(MaxHanded)

NextOps ==
  \/ Ops_get_farmer_info
  \/ Ops_get_all_farmers
  \/ Ops_get_farmer_fields
  \/ Ops_get_recent_conversations
  \/ Ops_save_conversation
  \/ Ops_get_crop_info
  \/ Ops_get_conversations_for_approval
  \/ Ops_get_conversation_details
  \/ Ops_health_check
  \/ Ops_get_session

SpecOps == Init /\ [][NextOps]_vars

----------------------------------------------------------------------------
(* SpecQueue: a healthy store, conversations of every shape of text, and *)
(* the three operations that read them back                               *)

Queue_save_conversation == save_conversation({"a"}, QueueInputs, MaxTxnQueue, NoFaults)
Queue_get_recent_conversations ==
  get_recent_conversations_call({1, 2}, {1, DefaultLimit}, NoFaults, FALSE)
Queue_get_conversations_for_approval == get_conversations_for_approval_call(NoFaults)
Queue_get_conversation_details == get_conversation_details_call(1..(next_id - 1), NoFaults)

NextQueue ==
  \/ Queue_save_conversation
  \/ Queue_get_recent_conversations
  \/ Queue_get_conversations_for_approval
  \/ Queue_get_conversation_details

SpecQueue == Init /\ [][NextQueue]_vars

----------------------------------------------------------------------------
(* SpecRecent: a healthy store, two callers saving for one farmer, and the *)
(* default listing called right after a save has returned its id           *)

Recent_save_conversation == save_conversation(Callers, RecentInputs, MaxTxnRecent, NoFaults)
Recent_get_recent_conversations ==
  get_recent_conversations_call({1}, {DefaultLimit}, NoFaults, TRUE)

NextRecent ==
  \/ Recent_save_conversation
  \/ Recent_get_recent_conversations

SpecRecent == Init /\ [][NextRecent]_vars

----------------------------------------------------------------------------
(* Properties *)

Ok(op) == ret.op = op /\ ret.failure = "ok"

\* the committed row with the given id among `rows`
RowOf(rows, id) == CHOOSE m \in rows : m.id = id

\* every row of `rows` has, among `rows`, the row of the other role that its
\* save_conversation call wrote (same farmer, same transaction timestamp)
Paired(rows) ==
  \A m \in rows : \E o \in rows :
    o.farmer_id = m.farmer_id /\ o.timestamp = m.timestamp /\ o.role # m.role

MessageReaders ==
  {"get_recent_conversations", "get_conversations_for_approval",
   "get_conversation_details"}

\* C1: the two rows of a save_conversation call become visible together: the
\* committed rows, and the rows any reading statement saw, never hold the user
\* row of a call without its assistant row (nor the reverse), and a listing that
\* the limit did not cut returns the turns in such pairs
C1_AtomicPair ==
  /\ Paired(incoming_messages)
  /\ (ret.op \in MessageReaders /\ ret.failure = "ok") => Paired(ret.ghost.seen)
  /\ (Ok("get_recent_conversations") /\ Len(ret.value) < ret.args.limit) =>
       \A i \in 1..Len(ret.value) : \E j \in 1..Len(ret.value) :
         /\ ret.value[j].timestamp = ret.value[i].timestamp
         /\ (ret.value[i].user_input = Empty) # (ret.value[j].user_input = Empty)

\* a listing returned a committed pair while a call that began earlier still
\* held its uncommitted rows
C1_Witness ==
  /\ Ok("get_recent_conversations")
  /\ Len(ret.value) = 2
  /\ \E c \in Callers :
       /\ pc[c] \in {"user_inserted", "assistant_inserted"}
       /\ tx[c][1].farmer_id = 1
       /\ tx[c][1].timestamp < ret.value[1].timestamp

\* C2: whenever save_conversation returns absent, no row the call inserted is
\* among the committed rows
C2_AbsentLeavesNothing ==
  (ret.op = "save_conversation" /\ ret.value = None) =>
    \A m \in incoming_messages :
      \A i \in 1..Len(ret.ghost.written) : m.id # ret.ghost.written[i]

\* C3 (as claimed): a default listing a caller makes right after its
\* save_conversation for the farmer returned an id, nothing having been committed
\* in between, holds both new turns
C3_ListingHoldsNewTurns ==
  (Ok("get_recent_conversations") /\ ret.args.limit = DefaultLimit
     /\ ret.ghost.follows # None /\ ret.ghost.follows[1].quiet) =>
    LET g == ret.ghost.follows[1]
    IN /\ \E i \in 1..Len(ret.value) :
            ret.value[i].id = g.user_id /\ ret.value[i].user_input = g.question
       /\ \E j \in 1..Len(ret.value) :
            ret.value[j].id = g.assistant_id /\ ret.value[j].ava_response = g.answer

\* C3 (amended): a default listing a caller makes right after its
\* save_conversation for the farmer returned an id holds both new turns, provided
\* at most limit - 2 = 8 other committed rows of the farmer carry a timestamp no
\* earlier than that of the two new rows
C3_ListingHoldsNewTurnsUnlessCrowded ==
  (Ok("get_recent_conversations") /\ ret.args.limit = DefaultLimit
     /\ ret.ghost.follows # None
     /\ ret.ghost.follows[1].others <= DefaultLimit - 2) =>
    LET g == ret.ghost.follows[1]
    IN /\ \E i \in 1..Len(ret.value) :
            ret.value[i].id = g.user_id /\ ret.value[i].user_input = g.question
       /\ \E j \in 1..Len(ret.value) :
            ret.value[j].id = g.assistant_id /\ ret.value[j].ava_response = g.answer

\* a full default listing right after a save, with as many later rows of other
\* calls as still leave room for the two new turns
C3_Witness ==
  /\ Ok("get_recent_conversations")
  /\ ret.ghost.follows # None
  /\ ret.ghost.follows[1].others = DefaultLimit - 2
  /\ Len(ret.value) = DefaultLimit
  /\ \E i \in 1..Len(ret.value) : ret.value[i].id = ret.ghost.follows[1].assistant_id

\* C4: the approval queue holds no farmer twice, and each entry is a user message
\* of its farmer than which the farmer has no later user message
C4_QueueLatestPerFarmer ==
  Ok("get_conversations_for_approval") =>
    LET q == ret.value.unapproved
        seen == ret.ghost.seen
    IN /\ \A i, j \in 1..Len(q) : i # j => q[i].farmer_id # q[j].farmer_id
       /\ \A i \in 1..Len(q) :
            /\ \E m \in seen :
                 /\ m.id = q[i].id /\ m.role = "user"
                 /\ m.farmer_id = q[i].farmer_id /\ m.timestamp = q[i].timestamp
            /\ \A x \in seen :
                 (x.role = "user" /\ x.farmer_id = q[i].farmer_id) =>
                   x.timestamp <= q[i].timestamp

\* a queue of two farmers, one of whom has an earlier user message as well
C4_Witness ==
  /\ Ok("get_conversations_for_approval")
  /\ Len(ret.value.unapproved) = 2
  /\ \E m \in ret.ghost.seen :
       /\ m.role = "user"
       /\ m.farmer_id = ret.value.unapproved[1].farmer_id
       /\ m.timestamp < ret.value.unapproved[1].timestamp

\* the first 100 characters of a text followed by "..."
Cut(text) == SubSeq(text, 1, 100) \o <<46, 46, 46>>

\* C5 (as claimed): last_message is the first 100 characters and the ellipsis for
\* a source longer than 100 characters, and the source itself otherwise, an
\* empty or null source included
C5_LastMessageAsSource ==
  Ok("get_conversations_for_approval") =>
    \A i \in 1..Len(ret.value.unapproved) :
      LET e == ret.value.unapproved[i]
          src == RowOf(ret.ghost.seen, e.id).message_text
      IN IF src # NULL /\ Len(src) > 100
         THEN e.last_message = Cut(src) /\ Len(e.last_message) <= 103
         ELSE e.last_message = src

\* C5 (amended): ... and the source itself otherwise, except that a null source
\* gives the empty string
C5_LastMessageAsSourceOrEmpty ==
  Ok("get_conversations_for_approval") =>
    \A i \in 1..Len(ret.value.unapproved) :
      LET e == ret.value.unapproved[i]
          src == RowOf(ret.ghost.seen, e.id).message_text
      IN IF src # NULL /\ Len(src) > 100
         THEN e.last_message = Cut(src) /\ Len(e.last_message) <= 103
         ELSE IF src = NULL THEN e.last_message = <<>>
         ELSE e.last_message = src

\* a queue with a cut message and a message of a null source
C5_Witness ==
  /\ Ok("get_conversations_for_approval")
  /\ \E i, j \in 1..Len(ret.value.unapproved) :
       /\ Len(ret.value.unapproved[i].last_message) = 103
       /\ RowOf(ret.ghost.seen, ret.value.unapproved[j].id).message_text = NULL

\* C6: get_all_farmers(limit=k) returns at most k entries, non-decreasing in
\* farm_name
C6_FarmersSortedByName ==
  Ok("get_all_farmers") =>
    /\ Len(ret.value) <= ret.args.limit
    /\ \A i, j \in 1..Len(ret.value) :
         i < j => LexLeq(ret.value[i].farm_name, ret.value[j].farm_name)

\* C7: no call lets a failure out, and a call in which a step failed returns the
\* empty value of its operation
C7_FailureGivesSentinel ==
  /\ ret.status = "returned"
  /\ ret.failure # "ok" =>
       CASE ret.op \in {"get_farmer_info", "save_conversation", "get_crop_info",
                        "get_conversation_details"} -> ret.value = None
         [] ret.op \in {"get_all_farmers", "get_farmer_fields",
                        "get_recent_conversations"} -> ret.value = <<>>
         [] ret.op = "get_conversations_for_approval" ->
              ret.value.unapproved = <<>> /\ ret.value.approved = <<>>
         [] ret.op = "health_check" -> ret.value = FALSE

\* health_check met an unreachable store
C7_Witness ==
  /\ ret.op = "health_check"
  /\ ret.failure = "execute"
  /\ ret.value = FALSE

\* a turn or a detail record is split by the role of its message
Split(e, seen) ==
  LET src == RowOf(seen, e.id)
  IN /\ src.role = "user" => e.user_input = src.message_text /\ e.ava_response = <<>>
     /\ src.role = "assistant" => e.ava_response = src.message_text /\ e.user_input = <<>>
     /\ src.role \in {"user", "assistant"}
     /\ e.approved_status = FALSE

\* C8: every turn of get_recent_conversations and the record of
\* get_conversation_details carry the text in user_input for a user message and
\* in ava_response for an assistant message, the other slot empty, and
\* approved_status false
C8_SlotsByRole ==
  /\ Ok("get_recent_conversations") =>
       \A i \in 1..Len(ret.value) : Split(ret.value[i], ret.ghost.seen)
  /\ (Ok("get_conversation_details") /\ ret.value # None) =>
       Split(ret.value[1], ret.ghost.seen)

\* a listing with a user turn and an assistant turn
C8_Witness ==
  /\ Ok("get_recent_conversations")
  /\ \E i, j \in 1..Len(ret.value) :
       /\ ret.value[i].user_input # <<>> /\ ret.value[i].ava_response = <<>>
       /\ ret.value[j].ava_response # <<>> /\ ret.value[j].user_input = <<>>

\* C9: the sessions the operations hold outside the pool (all but those a caller
\* took with get_session() itself) are exactly those of the calls in progress,
\* one each; a caller that is not inside a call holds no session of an operation
\* and no open transaction
C9_SessionsReleased ==
  /\ checked_out - handed_out = Cardinality({c \in Callers : pc[c] # "idle"})
  /\ \A c \in Callers : pc[c] = "idle" => tx[c] = <<>>

\* every call has completed, the last of them a save_conversation whose commit
\* failed, and the only session outside the pool is one a caller took itself
C9_Witness ==
  /\ \A c \in Callers : pc[c] = "idle"
  /\ handed_out = 1
  /\ checked_out = handed_out
  /\ ret.op = "save_conversation"
  /\ ret.failure = "commit"

\* the two rows a save_conversation call for (farmer_id, data) writes
IsPair(rows, farmer_id, data) ==
  LET phone == IF "wa_phone_number" \in DOMAIN data THEN data.wa_phone_number
               ELSE <<117, 110, 107, 110, 111, 119, 110>>
      question == IF "question" \in DOMAIN data THEN data.question ELSE NULL
      answer == IF "answer" \in DOMAIN data THEN data.answer ELSE NULL
  IN /\ Cardinality(rows) = 2
     /\ \E u, a \in rows :
          /\ u.role = "user" /\ u.message_text = question
          /\ a.role = "assistant" /\ a.message_text = answer
          /\ u.farmer_id = farmer_id /\ a.farmer_id = farmer_id
          /\ u.phone_number = phone /\ a.phone_number = phone

\* C10: no step changes the farmer, field and crop tables; no step removes or
\* changes a committed message; the committed messages grow only by the commit
\* of a save_conversation call, by exactly its two rows; and a call that returns
\* an id returns the id of its committed assistant row
C10_FrameEffect ==
  [][/\ tables' = tables
     /\ incoming_messages \subseteq incoming_messages'
     /\ incoming_messages' # incoming_messages =>
          \E c \in Callers :
            /\ pc[c] = "assistant_inserted" /\ pc'[c] = "committed"
            /\ IsPair(incoming_messages' \ incoming_messages,
                      tx[c][1].farmer_id, tx[c][1].data)
     /\ (ret' # ret /\ ret'.op \in MessageReaders) =>
          incoming_messages' = incoming_messages
     /\ (ret' # ret /\ ret'.op = "save_conversation" /\ ret'.value # None) =>
          \E u, a \in incoming_messages' :
            /\ IsPair({u, a}, ret'.args.farmer_id, ret'.args.data)
            /\ a.role = "assistant"
            /\ ret'.value = <<a.id>>
            /\ u.timestamp = a.timestamp]_vars

\* a save_conversation returned the id of its assistant row while the rows of
\* an earlier call were committed
C10_Witness ==
  /\ ret.op = "save_conversation"
  /\ ret.value # None
  /\ Cardinality(incoming_messages) = 4

====
